---- MODULE Spec2Model ----
(***************************************************************************)
(* A model of pygrep (src/pygrep.py): the four formatters, the formatter   *)
(* factory, the line scanner PatternMatcher._print_matches, the stdin      *)
(* reader and main.                                                        *)
(*                                                                         *)
(* Text is a sequence of one-character strings.  Indices in the Python     *)
(* code are 0-based; a match span is a pair <<start, end>> denoting the    *)
(* half-open range [start, end) of the line, as re.Match.span() returns.   *)
(***************************************************************************)
EXTENDS Integers, Sequences, FiniteSets

\* ------------------------------------------------------------------ bounds

\* Longest line handed to a formatter in the specification SpecFmt.
MaxLen == 3

\* Most file names on the command line (-f takes one or more).
MaxFiles == 2

\* Most lines on standard input.
MaxLines == 2

\* --------------------------------------------------------------- text

NL == "\n"
SP == " "
\* The escape character U+001B.
ESC == "ESC"

\* Python's s[a:b] for 0 <= a and 0 <= b (an empty slice when a >= b).
Slice(s, a, b) ==
    LET hi == IF b > Len(s) THEN Len(s) ELSE b
    IN  IF a >= hi THEN << >> ELSE SubSeq(s, a + 1, hi)

\* Python's s[a:].
SliceFrom(s, a) == Slice(s, a, Len(s))

\* Python's s[:-1].
SliceDropLast(s) == IF Len(s) = 0 THEN << >> ELSE SubSeq(s, 1, Len(s) - 1)

\* Python's ' ' * n.
Spaces(n) == [i \in 1..n |-> SP]

Digit(d) ==
    CASE d = 0 -> "0" [] d = 1 -> "1" [] d = 2 -> "2" [] d = 3 -> "3"
      [] d = 4 -> "4" [] d = 5 -> "5" [] d = 6 -> "6" [] d = 7 -> "7"
      [] d = 8 -> "8" [] d = 9 -> "9"

\* Python's str(n) for n >= 0, as the f-strings {line_number} and
\* {start_index} produce it.
RECURSIVE str(_)
str(n) == IF n < 10 THEN << Digit(n) >> ELSE str(n \div 10) \o << Digit(n % 10) >>

\* ---------------------------------------------------------- formatters

ansi_caret == "^"
ansi_red == << ESC, "[", "3", "1", "m" >>
ansi_reset == << ESC, "[", "0", "m" >>

\* UnderlineLoop with the slip of padding a match to its full length
\* (match_string_caret in place of match_string_caret[:-1]).
RECURSIVE UnderlineLoop_FullPad(_, _, _, _, _)
UnderlineLoop_FullPad(matches, line, i, start_index, caret_string) ==
    IF i > Len(matches)
    THEN [caret_string |-> caret_string, start_index |-> start_index]
    ELSE UnderlineLoop_FullPad(matches, line, i + 1, matches[i][2],
             caret_string
                 \o Spaces(Len(Slice(line, start_index, matches[i][1])))
                 \o << ansi_caret >>
                 \o Spaces(Len(Slice(line, matches[i][1], matches[i][2]))))

\* The loop of UnderlineFormatter.format_string over matches[i..]: the
\* caret_string built and the start_index left behind.
RECURSIVE UnderlineLoop(_, _, _, _, _)
UnderlineLoop(matches, line, i, start_index, caret_string) ==
    IF i > Len(matches)
    THEN [caret_string |-> caret_string, start_index |-> start_index]
    ELSE LET match_start_index == matches[i][1]
             match_end_index == matches[i][2]
             substring_before_match == Slice(line, start_index, match_start_index)
             match_string_caret == Slice(line, match_start_index, match_end_index)
         IN  UnderlineLoop(matches, line, i + 1, match_end_index,
                 caret_string \o Spaces(Len(substring_before_match))
                     \o << ansi_caret >>
                     \o Spaces(Len(SliceDropLast(match_string_caret))))

\* The caret row before its two prefixes of padding: caret_string after the
\* loop, with the spaces for the unmatched suffix when it is not empty.
UnderlineCaretString(matches, line) ==
    LET r == UnderlineLoop(matches, line, 1, 0, << >>)
    IN  IF Len(r.caret_string) > 0
        THEN r.caret_string \o Spaces(Len(SliceFrom(line, r.start_index)))
        ELSE << >>

UnderlineFormatter_format_string(matches, file_name, line_number, line) ==
    LET r == UnderlineLoop(matches, line, 1, 0, << >>)
    IN  IF Len(r.caret_string) > 0
        THEN file_name \o << SP >> \o str(line_number) \o << SP >> \o line
                 \o Spaces(Len(file_name)) \o << SP >>
                 \o Spaces(Len(str(line_number))) \o << SP >>
                 \o UnderlineCaretString(matches, line) \o << NL >>
        ELSE << >>

StandardFormatter_format_string(matches, file_name, line_number, line) ==
    IF Len(matches) > 0
    THEN file_name \o << SP >> \o str(line_number) \o << SP >> \o line
    ELSE << >>

\* MachineFormatter.format_string with the slip of reporting the last match
\* (matches_list[-1]) in place of the first.
MachineFormatter_LastMatch(matches, file_name, line_number, line) ==
    IF Len(matches) > 0
    THEN LET last_match == matches[Len(matches)]
         IN  file_name \o << ":" >> \o str(line_number) \o << ":" >>
                 \o str(last_match[1]) \o << ":" >>
                 \o Slice(line, last_match[1], last_match[2]) \o << NL >>
    ELSE << >>

MachineFormatter_format_string(matches, file_name, line_number, line) ==
    IF Len(matches) > 0
    THEN LET first_match == matches[1]
             start_index == first_match[1]
             end_index == first_match[2]
         IN  file_name \o << ":" >> \o str(line_number) \o << ":" >>
                 \o str(start_index) \o << ":" >>
                 \o Slice(line, start_index, end_index) \o << NL >>
    ELSE << >>

\* The loop of ColorFormatter.format_string over matches[i..].
RECURSIVE ColorLoop(_, _, _, _, _)
ColorLoop(matches, line, i, start_index, colored_line) ==
    IF i > Len(matches)
    THEN [colored_line |-> colored_line, start_index |-> start_index]
    ELSE LET match_start_index == matches[i][1]
             match_end_index == matches[i][2]
             substring_before_match == Slice(line, start_index, match_start_index)
             match_string_colored ==
                 ansi_red \o Slice(line, match_start_index, match_end_index)
                     \o ansi_reset
         IN  ColorLoop(matches, line, i + 1, match_end_index,
                 colored_line \o substring_before_match \o match_string_colored)

\* ColorFormatter.format_string with the slip of leaving out the test of
\* line 125: the line is formatted whether or not anything matched.
ColorFormatter_NoGuard(matches, file_name, line_number, line) ==
    LET r == ColorLoop(matches, line, 1, 0, << >>)
    IN  file_name \o << SP >> \o str(line_number) \o << SP >>
            \o r.colored_line \o SliceFrom(line, r.start_index)

\* ColorFormatter.format_string with the slip of leaving out line 126: the
\* text after the last match is dropped.
ColorFormatter_NoSuffix(matches, file_name, line_number, line) ==
    LET r == ColorLoop(matches, line, 1, 0, << >>)
    IN  IF Len(r.colored_line) > 0
        THEN file_name \o << SP >> \o str(line_number) \o << SP >>
                 \o r.colored_line
        ELSE << >>

ColorFormatter_format_string(matches, file_name, line_number, line) ==
    LET r == ColorLoop(matches, line, 1, 0, << >>)
    IN  IF Len(r.colored_line) > 0
        THEN file_name \o << SP >> \o str(line_number) \o << SP >>
                 \o r.colored_line \o SliceFrom(line, r.start_index)
        ELSE << >>

\* ------------------------------------------------------ formatter factory

COLOR == "color"
MACHINE == "machine"
UNDERLINE == "underline"
STANDARD == "standard"

FormatStyles == {STANDARD, COLOR, MACHINE, UNDERLINE}

\* FormatterFactory.get_formatter: the formatter class chosen, or the
\* ValueError raised for any other style.
get_formatter(format_style) ==
    IF format_style = STANDARD THEN "StandardFormatter"
    ELSE IF format_style = COLOR THEN "ColorFormatter"
    ELSE IF format_style = MACHINE THEN "MachineFormatter"
    ELSE IF format_style = UNDERLINE THEN "UnderlineFormatter"
    ELSE "ValueError"

\* formatter.format_string(...): the call of line 186, dispatched on the
\* formatter object's class.
format_string(formatter, matches, file_name, line_number, line) ==
    CASE formatter = "StandardFormatter" ->
             StandardFormatter_format_string(matches, file_name, line_number, line)
      [] formatter = "ColorFormatter" ->
             ColorFormatter_format_string(matches, file_name, line_number, line)
      [] formatter = "MachineFormatter" ->
             MachineFormatter_format_string(matches, file_name, line_number, line)
      [] formatter = "UnderlineFormatter" ->
             UnderlineFormatter_format_string(matches, file_name, line_number, line)

\* ------------------------------------------------------- regular expressions

\* The regular expressions of the model, as the strings given to -r: a
\* literal character, optionally under * or +, and the unbalanced "(".
Regexes == { << "a" >>, << "a", "*" >>, << "a", "+" >>, << "(" >> }

\* re.compile on those strings: the compiled pattern, or re.error.
re_compile(raw_regex_string) ==
    IF Len(raw_regex_string) = 1 /\ raw_regex_string[1] \notin {"(", ")", "*", "+"}
    THEN [kind |-> "lit", ch |-> raw_regex_string[1]]
    ELSE IF Len(raw_regex_string) = 2
            /\ raw_regex_string[1] \notin {"(", ")", "*", "+"}
            /\ raw_regex_string[2] \in {"*", "+"}
    THEN [kind |-> IF raw_regex_string[2] = "*" THEN "star" ELSE "plus",
          ch |-> raw_regex_string[1]]
    ELSE [kind |-> "re.error", ch |-> ""]

\* The end of the longest run of ch in line that starts at 0-based index i.
RECURSIVE RunEnd(_, _, _)
RunEnd(line, ch, i) ==
    IF i < Len(line) /\ line[i + 1] = ch THEN RunEnd(line, ch, i + 1) ELSE i

\* The end index of the pattern's (greedy) match starting at index i of
\* line, or -1 when it does not match there.
MatchAt(pattern, line, i) ==
    LET e == RunEnd(line, pattern.ch, i)
    IN  CASE pattern.kind = "lit" ->
                 IF i < Len(line) /\ line[i + 1] = pattern.ch THEN i + 1 ELSE -1
          [] pattern.kind = "plus" -> IF e > i THEN e ELSE -1
          [] pattern.kind = "star" -> e

\* pattern.finditer(line) from position pos on: the leftmost match at or
\* after pos, then the scan resumed at its end.  An empty match is not
\* reported a second time at the index where the last match was empty
\* (no_empty_at); there the search moves on by one position.
RECURSIVE FindFrom(_, _, _, _)
FindFrom(pattern, line, pos, no_empty_at) ==
    LET Hit(i) == MatchAt(pattern, line, i) # -1
                    /\ ~(MatchAt(pattern, line, i) = i /\ i = no_empty_at)
        hits == {i \in pos..Len(line) : Hit(i)}
    IN  IF hits = {} THEN << >>
        ELSE LET s == CHOOSE i \in hits : \A j \in hits : i <= j
                 e == MatchAt(pattern, line, s)
             IN  << << s, e >> >>
                     \o FindFrom(pattern, line, e, IF e = s THEN s ELSE -1)

finditer(pattern, line) == FindFrom(pattern, line, 0, -1)

\* ------------------------------------------------------------- the inputs

STDIN == << "S", "T", "D", "I", "N" >>

\* args.files when -f is absent.  With nargs='+' argparse never yields an
\* empty list, so the empty sequence is free to stand for None.
None == << >>

\* The file names of the model: three readable files (the first ends
\* without a line terminator, the third is empty) and a name open() fails
\* on.
FileNames == { << "a" >>, << "b", "b" >>, << "e" >>, << "m" >> }

CanOpen(name) == name \in { << "a" >>, << "b", "b" >>, << "e" >> }

\* The lines iterating over the open file yields.
FileContent(name) ==
    CASE name = << "a" >> -> << << "a", "b", NL >>, << "b", NL >>, << "a", "a" >> >>
      [] name = << "b", "b" >> -> << << "q", NL >>, << "b", "a", NL >> >>
      [] OTHER -> << >>

\* The lines standard input may hold; one without a terminator can only be
\* the last.
StdinLines ==
    { << "a", NL >>, << "b", NL >>, << "q", NL >>, << "q", SP, NL >>,
      << SP, "q", NL >>, << "q" >>, << "a" >> }

SeqsUpTo(S, n) == UNION { [1..k -> S] : k \in 0..n }

StdinInputs ==
    { s \in SeqsUpTo(StdinLines, MaxLines) :
          \A i \in 1..(Len(s) - 1) : s[i][Len(s[i])] = NL }

FilesArgs == SeqsUpTo(FileNames, MaxFiles) \ { << >> }

\* Python's line.rstrip(): the line without its trailing whitespace.
RECURSIVE rstrip(_)
rstrip(s) ==
    IF Len(s) > 0 /\ s[Len(s)] \in {SP, NL}
    THEN rstrip(SubSeq(s, 1, Len(s) - 1))
    ELSE s

\* read_from_stdin: the lines of sys.stdin before the first one that is
\* 'q' once stripped.
RECURSIVE read_from_stdin(_)
read_from_stdin(sys_stdin) ==
    IF sys_stdin = << >> THEN << >>
    ELSE IF << "q" >> = rstrip(Head(sys_stdin)) THEN << >>
    ELSE << Head(sys_stdin) >> \o read_from_stdin(Tail(sys_stdin))

\* ---------------------------------------------------------------- state

VARIABLES
    regex,           \* args.regex
    format_style,    \* the style main derives from -c, -m, -u
    files_list,      \* args.files: a list of names, or None
    sys_stdin,       \* the lines standard input holds
    pc,              \* where the run is
    formatter,       \* the formatter object main builds
    fidx,            \* position in files_list of the file at hand (0: none)
    opened,          \* the positions in files_list whose handle is open
    closed,          \* the positions in files_list whose handle was closed
    iterable,        \* the lines _print_matches has still to enumerate
    pattern,         \* the compiled pattern
    file_name,       \* _print_matches' file_name
    line_number,     \* the loop's line_number
    line,            \* the loop's line
    matches,         \* the spans of pattern.finditer(line)
    formatted_line,  \* what format_string returned for line
    stdout,          \* the texts written by print, in order
    emitted,         \* for each formatted line in stdout: <<fidx, line_number>>
    scanned,         \* the lines handed to finditer, in order
    exit_code,       \* the process's exit status (-1: still running)
    error            \* what ended the run early, or "none"

vars ==
    << regex, format_style, files_list, sys_stdin, pc, formatter, fidx, opened,
       closed, iterable, pattern, file_name, line_number, line, matches,
       formatted_line, stdout, emitted, scanned, exit_code, error >>

args == << regex, format_style, files_list, sys_stdin >>

locals == << line_number, line, matches, formatted_line >>

NoPattern == [kind |-> "none", ch |-> ""]

Init ==
    /\ regex \in Regexes
    /\ format_style \in FormatStyles
    /\ \/ files_list \in FilesArgs /\ sys_stdin = << >>
       \/ files_list = None /\ sys_stdin \in StdinInputs
    /\ pc = "main"
    /\ formatter = "none"
    /\ fidx = 0
    /\ opened = {}
    /\ closed = {}
    /\ iterable = << >>
    /\ pattern = NoPattern
    /\ file_name = << >>
    /\ line_number = 0
    /\ line = << >>
    /\ matches = << >>
    /\ formatted_line = << >>
    /\ stdout = << >>
    /\ emitted = << >>
    /\ scanned = << >>
    /\ exit_code = -1
    /\ error = "none"

\* ----------------------------------------------------------------- main

\* main with -f: the formatter is built and print_matches_from_files
\* starts its loop over files_list.
MainFiles ==
    /\ pc = "main"
    /\ files_list # None
    /\ formatter' = get_formatter(format_style)
    /\ fidx' = 1
    /\ pc' = "files_loop"
    /\ UNCHANGED << args, opened, closed, iterable, pattern, file_name, locals,
                    stdout, emitted, scanned, exit_code, error >>

\* main without -f: read_from_stdin runs to its end, then
\* print_matches_from_strings calls _print_matches on the list it returned.
MainStdin ==
    /\ pc = "main"
    /\ files_list = None
    /\ formatter' = get_formatter(format_style)
    /\ iterable' = read_from_stdin(sys_stdin)
    /\ file_name' = STDIN
    /\ pc' = "compile"
    /\ UNCHANGED << args, fidx, opened, closed, pattern, locals, stdout,
                    emitted, scanned, exit_code, error >>

\* ----------------------------------------------- print_matches_from_files

\* with_exit with the slip of a bare open(): nothing closes the handle.
with_exit_Leak(handles, i) == handles

\* The with statement's exit: the handle of the file at hand is closed,
\* however the block is left.
with_exit(handles, i) == handles \ {i}

\* open(file_name, 'r') succeeds: _print_matches is called on the handle.
OpenFile ==
    /\ pc = "files_loop"
    /\ fidx <= Len(files_list)
    /\ CanOpen(files_list[fidx])
    /\ opened' = opened \cup {fidx}
    /\ iterable' = FileContent(files_list[fidx])
    /\ file_name' = files_list[fidx]
    /\ pc' = "compile"
    /\ UNCHANGED << args, formatter, fidx, closed, pattern, locals, stdout,
                    emitted, scanned, exit_code, error >>

\* OpenFileError with the slip of catching the OSError and going on to the
\* next name.
OpenFileError_Skip ==
    /\ pc = "files_loop"
    /\ fidx <= Len(files_list)
    /\ ~CanOpen(files_list[fidx])
    /\ fidx' = fidx + 1
    /\ UNCHANGED << args, pc, formatter, opened, closed, iterable, pattern,
                    file_name, locals, stdout, emitted, scanned, exit_code,
                    error >>

\* open(file_name, 'r') raises: nothing catches the OSError, the
\* interpreter prints the traceback and exits with status 1.
OpenFileError ==
    /\ pc = "files_loop"
    /\ fidx <= Len(files_list)
    /\ ~CanOpen(files_list[fidx])
    /\ error' = "open"
    /\ exit_code' = 1
    /\ pc' = "done"
    /\ UNCHANGED << args, formatter, fidx, opened, closed, iterable, pattern,
                    file_name, locals, stdout, emitted, scanned >>

\* The loop over files_list is over: main returns.
FilesDone ==
    /\ pc = "files_loop"
    /\ fidx > Len(files_list)
    /\ exit_code' = 0
    /\ pc' = "done"
    /\ UNCHANGED << args, formatter, fidx, opened, closed, iterable, pattern,
                    file_name, locals, stdout, emitted, scanned, error >>

\* --------------------------------------------------------- _print_matches

\* The text print writes for a bad regex; {ex} is re's own diagnostic.
BadRegexMessage(raw_regex_string) ==
    << "Bad regex, ", "{ex}", ", regex: ", "\"" >> \o raw_regex_string
        \o << "\"", NL >>

\* py_print with the slip of writing the text before what was written.
py_print_Prepend(out, text) == << text >> \o out

\* print(text, end=''): the text is added at the end of standard output.
py_print(out, text) == Append(out, text)

\* re.compile succeeds.
CompileOk ==
    /\ pc = "compile"
    /\ re_compile(regex).kind # "re.error"
    /\ pattern' = re_compile(regex)
    /\ line_number' = 0
    /\ pc' = "scan"
    /\ UNCHANGED << args, formatter, fidx, opened, closed, iterable, file_name,
                    line, matches, formatted_line, stdout, emitted, scanned,
                    exit_code, error >>

\* re.compile raises re.error: the diagnostic is printed and SystemExit(1)
\* raised, which leaves the with block of print_matches_from_files.
CompileError ==
    /\ pc = "compile"
    /\ re_compile(regex).kind = "re.error"
    /\ stdout' = py_print(stdout, BadRegexMessage(regex))
    /\ opened' = with_exit(opened, fidx)
    /\ closed' = closed \cup opened
    /\ error' = "bad_regex"
    /\ exit_code' = 1
    /\ pc' = "done"
    /\ UNCHANGED << args, formatter, fidx, iterable, pattern, file_name, locals,
                    emitted, scanned >>

\* Lines 187-188: the formatted line is printed when it is not empty.
PrintIfFormatted(f) ==
    IF f # << >> THEN stdout' = py_print(stdout, f) ELSE UNCHANGED stdout

\* One turn of the loop over enumerate(iterable, 1).
ScanLine ==
    /\ pc = "scan"
    /\ iterable # << >>
    /\ LET l == Head(iterable)
           n == line_number + 1
           m == finditer(pattern, l)
           f == format_string(formatter, m, file_name, n, l)
       IN  /\ line' = l
           /\ line_number' = n
           /\ matches' = m
           /\ formatted_line' = f
           /\ PrintIfFormatted(f)
           /\ scanned' = Append(scanned,
                  [fidx |-> fidx, file_name |-> file_name, line_number |-> n,
                   line |-> l])
           /\ emitted' = IF f # << >> THEN Append(emitted, << fidx, n >>)
                         ELSE emitted
    /\ iterable' = Tail(iterable)
    /\ UNCHANGED << args, pc, formatter, fidx, opened, closed, pattern,
                    file_name, exit_code, error >>

\* Reading the next line of the open file raises (an I/O or a decoding
\* error): the exception leaves the with block and ends the process.
ReadError ==
    /\ pc = "scan"
    /\ fidx \in opened
    /\ opened' = with_exit(opened, fidx)
    /\ closed' = closed \cup {fidx}
    /\ error' = "read"
    /\ exit_code' = 1
    /\ pc' = "done"
    /\ UNCHANGED << args, formatter, fidx, iterable, pattern, file_name, locals,
                    stdout, emitted, scanned >>

\* The file is exhausted: _print_matches returns, the with block closes the
\* handle and the loop turns to the next name.
EndOfFile ==
    /\ pc = "scan"
    /\ iterable = << >>
    /\ files_list # None
    /\ opened' = with_exit(opened, fidx)
    /\ closed' = closed \cup {fidx}
    /\ fidx' = fidx + 1
    /\ pc' = "files_loop"
    /\ UNCHANGED << args, formatter, iterable, pattern, file_name, locals,
                    stdout, emitted, scanned, exit_code, error >>

\* The list of stdin lines is exhausted: main returns.
EndOfStdin ==
    /\ pc = "scan"
    /\ iterable = << >>
    /\ files_list = None
    /\ exit_code' = 0
    /\ pc' = "done"
    /\ UNCHANGED << args, formatter, fidx, opened, closed, iterable, pattern,
                    file_name, locals, stdout, emitted, scanned, error >>

Next ==
    \/ MainFiles
    \/ MainStdin
    \/ OpenFile
    \/ OpenFileError
    \/ FilesDone
    \/ CompileOk
    \/ CompileError
    \/ ScanLine
    \/ ReadError
    \/ EndOfFile
    \/ EndOfStdin

Spec == Init /\ [][Next]_vars

\* ------------------------------------------- the formatters on any spans

\* The lines a formatter is given: text over two letters, with or without
\* the line terminator at its end.
Letters == {"a", "b"}

FmtLines ==
    { l \in SeqsUpTo(Letters \cup {NL}, MaxLen) :
          /\ Len(l) > 0
          /\ \A i \in 1..(Len(l) - 1) : l[i] # NL }

SpansOf(n) == { << s, e >> : s \in 0..n, e \in 0..n } \ { << s, e >> \in (0..n) \X (0..n) : s > e }

\* The span sequences finditer can yield on a line of length n, after the
\* span last: left to right, none overlapping the one before it, and no
\* empty match twice at one index.
RECURSIVE SpanSeqsAfter(_, _)
SpanSeqsAfter(n, last) ==
    { << >> } \cup
    UNION { { << sp >> \o rest : rest \in SpanSeqsAfter(n, sp) } :
              sp \in { x \in SpansOf(n) : last[2] <= x[1] /\ x # last } }

SpanSeqs(n) == SpanSeqsAfter(n, << -1, -1 >>)

FmtFileNames == { << "f" >>, STDIN }

FmtLineNumbers == { 1, 12 }

Formatters ==
    { "StandardFormatter", "ColorFormatter", "MachineFormatter", "UnderlineFormatter" }

InitFmt ==
    /\ formatter \in Formatters
    /\ file_name \in FmtFileNames
    /\ line_number \in FmtLineNumbers
    /\ line \in FmtLines
    /\ matches \in SpanSeqs(Len(line))
    /\ formatted_line = << >>
    /\ stdout = << >>
    /\ pc = "format_string"
    /\ regex = << >>
    /\ format_style = STANDARD
    /\ files_list = None
    /\ sys_stdin = << >>
    /\ fidx = 0
    /\ opened = {}
    /\ closed = {}
    /\ iterable = << >>
    /\ pattern = NoPattern
    /\ emitted = << >>
    /\ scanned = << >>
    /\ exit_code = -1
    /\ error = "none"

\* Lines 186-188 on the spans at hand: the formatter is called and its
\* result printed when it is not empty.
FormatAndPrint(f) ==
    /\ pc = "format_string"
    /\ formatted_line' = f
    /\ PrintIfFormatted(f)
    /\ pc' = "returned"
    /\ UNCHANGED << args, formatter, fidx, opened, closed, iterable, pattern,
                    file_name, line_number, line, matches, emitted, scanned,
                    exit_code, error >>

CallStandard ==
    /\ formatter = "StandardFormatter"
    /\ FormatAndPrint(StandardFormatter_format_string(matches, file_name, line_number, line))

CallColor ==
    /\ formatter = "ColorFormatter"
    /\ FormatAndPrint(ColorFormatter_format_string(matches, file_name, line_number, line))

CallMachine ==
    /\ formatter = "MachineFormatter"
    /\ FormatAndPrint(MachineFormatter_format_string(matches, file_name, line_number, line))

CallUnderline ==
    /\ formatter = "UnderlineFormatter"
    /\ FormatAndPrint(UnderlineFormatter_format_string(matches, file_name, line_number, line))

NextFmt == CallStandard \/ CallColor \/ CallMachine \/ CallUnderline

SpecFmt == InitFmt /\ [][NextFmt]_vars

\* ============================================================== claims

\* "{source_id} {line_number} ", the prefix three of the formatters write.
Prefix == file_name \o << SP >> \o str(line_number) \o << SP >>

Returned(f) == pc = "returned" /\ formatter = f

\* --------------------------------------------------------------------- C1
\* C1: for every line and each of the four formatters, when the sequence of
\* match spans is empty format_string returns the empty string and nothing
\* is written to the output for that line.
C1_NoSpansNoOutput ==
    (pc = "returned" /\ matches = << >>) =>
        (formatted_line = << >> /\ stdout = << >>)

\* A formatter has returned on a line without any span.
C1_Witness ==
    /\ Returned("ColorFormatter")
    /\ matches = << >>
    /\ Len(line) = MaxLen

\* --------------------------------------------------------------------- C4
\* The caret row of the underline formatter's output: what follows the
\* first row and the alignment padding, without the final newline.
CaretRow ==
    SubSeq(formatted_line, 2 * Len(Prefix) + Len(line) + 1, Len(formatted_line) - 1)

\* The number of zero-length spans among the first k spans.
RECURSIVE ZeroLengthAmong(_, _)
ZeroLengthAmong(ms, k) ==
    IF k = 0 THEN 0
    ELSE ZeroLengthAmong(ms, k - 1) + (IF ms[k][1] = ms[k][2] THEN 1 ELSE 0)

RECURSIVE PhysicalLines(_, _)
PhysicalLines(text, acc) ==
    IF text = << >> THEN (IF acc = << >> THEN << >> ELSE << acc >>)
    ELSE IF Head(text) = NL
         THEN << acc \o << NL >> >> \o PhysicalLines(Tail(text), << >>)
         ELSE PhysicalLines(Tail(text), acc \o << Head(text) >>)

WithoutTerminator(l) ==
    IF Len(l) > 0 /\ l[Len(l)] = NL THEN SubSeq(l, 1, Len(l) - 1) ELSE l

\* C5: for every line with a span, whether or not the line ends with a
\* newline, the underline formatter's output is exactly two physical lines:
\* "{source_id} {line_number} {line_text}", then as many spaces as
\* "{source_id} {line_number} " is wide followed by the caret row, and the
\* output ends with a newline.
C5_TwoPhysicalLines ==
    (Returned("UnderlineFormatter") /\ matches # << >>) =>
        LET rows == PhysicalLines(formatted_line, << >>)
        IN  /\ Len(rows) = 2
            /\ WithoutTerminator(rows[1]) = Prefix \o WithoutTerminator(line)
            /\ rows[2] = Spaces(Len(Prefix)) \o UnderlineCaretString(matches, line)
                             \o << NL >>

\* --------------------------------------------------------------------- C6
\* C6: for every line with one or more spans the machine formatter returns
\* "{source_id}:{line_number}:{start}:{line[start:end]}\n" for the first,
\* leftmost span [start, end), start its 0-based offset in the line; the
\* spans after the first change nothing.
C6_MachineFirstSpan ==
    (Returned("MachineFormatter") /\ matches # << >>) =>
        LET start == matches[1][1]
            end == matches[1][2]
            matched == [k \in 1..(end - start) |-> line[start + k]]
        IN  /\ \A i \in DOMAIN matches : start <= matches[i][1]
            /\ formatted_line =
                   file_name \o << ":" >> \o str(line_number) \o << ":" >>
                       \o str(start) \o << ":" >> \o matched \o << NL >>
            /\ stdout = << formatted_line >>

\* The machine formatter has returned on three spans, the first of them
\* not at the start of the line.
C6_Witness ==
    /\ Returned("MachineFormatter")
    /\ Len(matches) = 3
    /\ matches[1][1] > 0
    /\ matches[1][2] > matches[1][1]

\* --------------------------------------------------------------------- C7
StartsWith(text, p) == Len(text) >= Len(p) /\ SubSeq(text, 1, Len(p)) = p

Drop(text, n) == SubSeq(text, n + 1, Len(text))

\* The text without its start-red and reset control sequences.
RECURSIVE StripColor(_)
StripColor(text) ==
    IF text = << >> THEN << >>
    ELSE IF StartsWith(text, ansi_red) THEN StripColor(Drop(text, Len(ansi_red)))
    ELSE IF StartsWith(text, ansi_reset) THEN StripColor(Drop(text, Len(ansi_reset)))
    ELSE << Head(text) >> \o StripColor(Tail(text))

\* The pieces of the text that sit between a start-red and the next reset,
\* in order; << "unbalanced" >> is added for a start-red inside a red piece,
\* a reset outside one and a red piece the text leaves open.
RECURSIVE RedPieces(_, _, _)
RedPieces(text, inside, acc) ==
    IF text = << >> THEN (IF inside THEN << << "unbalanced" >> >> ELSE << >>)
    ELSE IF StartsWith(text, ansi_red)
         THEN (IF inside THEN << << "unbalanced" >> >> ELSE << >>)
                  \o RedPieces(Drop(text, Len(ansi_red)), TRUE, << >>)
    ELSE IF StartsWith(text, ansi_reset)
         THEN (IF inside THEN << acc >> ELSE << << "unbalanced" >> >>)
                  \o RedPieces(Drop(text, Len(ansi_reset)), FALSE, << >>)
    ELSE RedPieces(Tail(text), inside, IF inside THEN acc \o << Head(text) >> ELSE acc)

SourceLines(f) ==
    IF files_list = None THEN read_from_stdin(sys_stdin)
    ELSE FileContent(files_list[f])

SourceName(f) == IF files_list = None THEN STDIN ELSE files_list[f]

\* C2: the formatted records are written in the order their lines are
\* read: all the output of file i before any of file i+1, and within one
\* source with strictly increasing line numbers; the k-th text written is
\* the record of the k-th line read that has a match.
C2_OutputInReadOrder ==
    /\ Len(stdout) = Len(emitted) + (IF error = "bad_regex" THEN 1 ELSE 0)
    /\ \A k \in DOMAIN emitted :
           LET f == emitted[k][1]
               n == emitted[k][2]
           IN  /\ n \in DOMAIN SourceLines(f)
               /\ finditer(pattern, SourceLines(f)[n]) # << >>
               /\ stdout[k] = format_string(formatter,
                                  finditer(pattern, SourceLines(f)[n]),
                                  SourceName(f), n, SourceLines(f)[n])
    /\ \A i, j \in DOMAIN emitted :
           i < j => \/ emitted[i][1] < emitted[j][1]
                    \/ /\ emitted[i][1] = emitted[j][1]
                       /\ emitted[i][2] < emitted[j][2]
    /\ \A i \in DOMAIN scanned :
           (finditer(pattern, scanned[i].line) # << >>) =>
               \E k \in DOMAIN emitted :
                   emitted[k] = << scanned[i].fidx, scanned[i].line_number >>

\* A run over two files has ended with three records written, the first
\* from the first file and the last from the second, and some line read
\* without a match.
C2_Witness ==
    /\ pc = "done"
    /\ exit_code = 0
    /\ Len(emitted) = 3
    /\ emitted[1][1] = 1
    /\ emitted[3][1] = 2
    /\ Len(scanned) > Len(emitted)

\* --------------------------------------------------------------------- C3
\* C3: with a syntactically invalid pattern, whatever the input (any list
\* of files, existing or not, or any stdin contents), the run ends with
\* exit code 1 and the bad-regex diagnostic naming the pattern printed, and
\* no line is scanned or formatted and no formatted line written.
C3_InvalidPatternAborts ==
    (pc = "done" /\ re_compile(regex).kind = "re.error") =>
        /\ exit_code = 1
        /\ stdout = << BadRegexMessage(regex) >>
        /\ scanned = << >>
        /\ emitted = << >>

\* --------------------------------------------------------------------- C8
\* The lines before the first one that is 'q' once its line terminator,
\* and nothing else, is trimmed.
RECURSIVE BeforeSentinel(_)
BeforeSentinel(ls) ==
    IF ls = << >> THEN << >>
    ELSE IF WithoutTerminator(Head(ls)) = << "q" >> THEN << >>
    ELSE << Head(ls) >> \o BeforeSentinel(Tail(ls))

\* C8: without files, the lines handed to the scanner are exactly the
\* lines of standard input before the first one whose content, the line
\* terminator alone trimmed, is q; in their order, numbered from 1, under
\* the name STDIN.
C8_StdinUpToSentinel ==
    (pc = "done" /\ exit_code = 0 /\ files_list = None) =>
        scanned = [i \in DOMAIN BeforeSentinel(sys_stdin) |->
                       [fidx |-> 0, file_name |-> STDIN, line_number |-> i,
                        line |-> BeforeSentinel(sys_stdin)[i]]]

\* --------------------------------------------------------------------- C9
\* C9: at most one file handle is open at any time, and the handle of a
\* file is closed before the next file is opened and before the process
\* ends, however its block is left (end of file, read error, the abort on
\* an invalid pattern).
C9_HandlesScoped ==
    /\ Cardinality(opened) <= 1
    /\ opened \subseteq {fidx}
    /\ pc \in {"files_loop", "done"} => opened = {}
    /\ \A i \in DOMAIN scanned :
           files_list # None => scanned[i].fidx \in opened \cup closed
    /\ opened \cap closed = {}

\* A run has ended on a read error in its second file, with both handles
\* closed.
C9_Witness ==
    /\ pc = "done"
    /\ error = "read"
    /\ closed = {1, 2}
    /\ opened = {}

\* -------------------------------------------------------------------- C10
Unopenable == { i \in DOMAIN files_list : ~CanOpen(files_list[i]) }

FirstUnopenable == CHOOSE k \in Unopenable : \A i \in Unopenable : k <= i

\* The records of the lines of the files at positions i..(k-1), in order.
RECURSIVE RecordsOfFiles(_, _)
RecordsOfFiles(i, k) ==
    IF i >= k THEN << >>
    ELSE [n \in DOMAIN FileContent(files_list[i]) |->
              [fidx |-> i, file_name |-> files_list[i], line_number |-> n,
               line |-> FileContent(files_list[i])[n]]]
             \o RecordsOfFiles(i + 1, k)

\* What the formatter at hand makes of a record.
FormattedRecord(r) ==
    format_string(formatter, finditer(pattern, r.line), r.file_name,
                  r.line_number, r.line)

NotEmpty(t) == t # << >>

\* C10: with a valid pattern, the first file that cannot be opened ends the
\* run with a fatal error there: the output of every matching line of the
\* files before it has been written and stays, and no line of that file or
\* of a later one is scanned or printed.
C10_FatalOnUnopenable ==
    (files_list # None /\ Unopenable # {} /\ re_compile(regex).kind # "re.error") =>
        LET k == FirstUnopenable
            before == RecordsOfFiles(1, k)
        IN  /\ \A i \in DOMAIN scanned : scanned[i].fidx < k
            /\ \A i \in DOMAIN emitted : emitted[i][1] < k
            /\ fidx <= k
            /\ (pc = "done" /\ error # "read") =>
                   /\ error = "open"
                   /\ exit_code = 1
                   /\ fidx = k
                   /\ scanned = before
                   /\ stdout = SelectSeq([i \in DOMAIN before |->
                                              FormattedRecord(before[i])],
                                         NotEmpty)

\* A run has ended on its second file, which cannot be opened, after
\* writing the records of the first.
C10_Witness ==
    /\ pc = "done"
    /\ error = "open"
    /\ fidx = 2
    /\ Len(stdout) >= 2
    /\ Len(scanned) > Len(stdout)

====
